---- MODULE Spec2Model ----
(***************************************************************************)
(* A model of src/app.py, the BG Remover HTTP service: the lazily built    *)
(* rembg session (get_session), POST /remove (remove_bg), POST             *)
(* /remove/batch (remove_bg_batch) and GET /download/<id> (download), run  *)
(* by the worker threads of the Flask server over the shared module global *)
(* `session` and the shared output directory.                              *)
(*                                                                         *)
(* Strings the code transforms (str.lower) are sequences of one-character  *)
(* strings, so that lower-casing is computed and not assumed.  Calls into  *)
(* rembg, Pillow and the file system are steps with the outcomes those     *)
(* calls have: a value or a raised exception.  An exception that no        *)
(* try/except of app.py catches is answered by Flask with its own          *)
(* text/html 500 page.  alpha_matting is passed to rembg.remove only and   *)
(* changes nothing the model observes; it is left out.                     *)
(***************************************************************************)
EXTENDS Integers, Sequences, FiniteSets, TLC

\* ---------------------------------------------------------------- bounds
\* worker threads; POST requests in a run of the server (a GET /download
\* changes nothing and is not counted); files in one batch
NThreads == 2
MaxPosts == 2
MaxBatch == 2

Threads == 1..NThreads

\* str(uuid.uuid4())[:8] draws from 16^8 identifiers; two stand for them.
FileIds == {"id1", "id2"}

\* ---------------------------------------------------------------- strings
S_png == <<"p", "n", "g">>
S_webp == <<"w", "e", "b", "p">>
S_true == <<"t", "r", "u", "e">>
S_false == <<"f", "a", "l", "s", "e">>

\* str.lower on one character
LowerChar(c) ==
    CASE c = "W" -> "w"
      [] c = "E" -> "e"
      [] c = "B" -> "b"
      [] c = "P" -> "p"
      [] c = "N" -> "n"
      [] c = "G" -> "g"
      [] c = "T" -> "t"
      [] c = "R" -> "r"
      [] c = "U" -> "u"
      [] OTHER -> c

\* str.lower
Lower(s) == [i \in DOMAIN s |-> LowerChar(s[i])]

\* a query-string argument: present with a value, or absent
Absent == [present |-> FALSE, val |-> <<>>]
Arg(v) == [present |-> TRUE, val |-> v]

\* request.args.get(key, default)
ArgsGet(a, default) == IF a.present THEN a.val ELSE default

\* ---------------------------------------------------------------- configuration
\* MODEL_NAME = os.environ.get("REMBG_MODEL", "u2net")
MODEL_NAME == "u2net"

\* ---------------------------------------------------------------- inputs
FormatArgs ==
    { Absent, Arg(<<>>), Arg(S_webp), Arg(<<"W", "e", "b", "P">>),
      Arg(<<"g", "i", "f">>) }

Base64Args == { Absent, Arg(<<"T", "r", "u", "e">>) }

ModelArgs == { "absent", "silueta" }

\* what the uploaded bytes are: an image rembg and Pillow accept, or not
Images == {"good", "bad"}

NoJson == [type |-> "unparsable", hasImage |-> FALSE, image |-> "-"]

\* the JSON document of a request body.  hasImage: the string "image" is a
\* key of the object, an element of the list or a substring of the string.
\* image: the value under the key: base64 of an image, base64 of other
\* bytes, a string with incorrect base64 padding, or a non-string value.
JsonValues ==
    { NoJson,
      [type |-> "null", hasImage |-> FALSE, image |-> "-"],
      [type |-> "number", hasImage |-> FALSE, image |-> "-"] }
    \cup { [type |-> ty, hasImage |-> h, image |-> "-"] :
             ty \in {"string", "list"}, h \in BOOLEAN }
    \cup { [type |-> "object", hasImage |-> FALSE, image |-> "-"] }
    \cup { [type |-> "object", hasImage |-> TRUE, image |-> v] :
             v \in {"b64_good", "b64_bad", "b64_invalid", "not_string"} }

\* the body of a POST /remove: a multipart form with or without 'file', a
\* body with a JSON content type, or any other body
Bodies ==
    { [hasFile |-> TRUE, fileImg |-> im, isJson |-> FALSE, json |-> NoJson] :
        im \in Images }
    \cup { [hasFile |-> FALSE, fileImg |-> "-", isJson |-> TRUE, json |-> j] :
             j \in JsonValues }
    \cup { [hasFile |-> FALSE, fileImg |-> "-", isJson |-> FALSE, json |-> j] :
             j \in { NoJson,
                     [type |-> "object", hasImage |-> TRUE, image |-> "b64_good"] } }

\* the request carries a JSON 'image' field
HasImageField(b) == b.json.type = "object" /\ b.json.hasImage

UploadNames == {"a.jpg", "b.jpg"}
Uploads == [name : UploadNames, img : Images]

RECURSIVE SeqsUpTo(_, _)
SeqsUpTo(S, n) ==
    IF n = 0 THEN { <<>> }
    ELSE LET shorter == SeqsUpTo(S, n - 1)
         IN shorter \cup { Append(s, x) : s \in { q \in shorter : Len(q) = n - 1 }, x \in S }

\* request.files.getlist("files"); empty when the form has no 'files' field
Batches == SeqsUpTo(Uploads, MaxBatch)

\* ---------------------------------------------------------------- state
VARIABLES
    session,    \* the module global: 0 is None, h > 0 the h-th handle built
    handles,    \* how many handles new_session has returned
    store,      \* OUTPUT_DIR: file name -> contents, or NoFile
    th,         \* each worker thread's handler frame
    nposts,     \* POST requests received so far; they number the runs
    last,       \* the response sent last, until the next request is read
    okRuns      \* the /remove runs answered 200: their id and extension

vars == <<session, handles, store, th, nposts, last, okRuns>>

None == 0
\* a file's contents: the run that encoded them and the encoder used
NoFile == [run |-> <<0, 0>>, enc |-> "-"]
Idle == [pc |-> "idle"]
NoResponse == [kind |-> "none"]

\* every extension a file name could be given: the two the code names and
\* every lower-cased format value a request can carry
StoreExts == {S_png, S_webp} \cup { Lower(ArgsGet(f, S_png)) : f \in FormatArgs }

FileNames == FileIds \X StoreExts

Init ==
    /\ session = None
    /\ handles = 0
    /\ store = [f \in FileNames |-> NoFile]
    /\ th = [t \in Threads |-> Idle]
    /\ nposts = 0
    /\ last = NoResponse
    /\ okRuns = {}

AllArgs == [format : FormatArgs, base64 : Base64Args, model : ModelArgs]

\* ---------------------------------------------------------------- responses
\* jsonify({"error": ...}), status
JsonError(kind, status) ==
    [kind |-> kind, status |-> status, json |-> TRUE, uncaught |-> FALSE]

\* an exception no handler catches: Flask's own 500 page (text/html)
Uncaught(kind) ==
    [kind |-> kind, status |-> 500, json |-> FALSE, uncaught |-> TRUE]

\* ---------------------------------------------------------------- get_session
\* a get_session that honours the request's 'model' parameter
NeedsBuildPerModel(t) ==
    \/ session = None
    \/ th[t].kind = "remove" /\ th[t].args.model \notin {"absent", MODEL_NAME}

\* `if session is None`
NeedsBuild(t) == session = None

\* line 35: the test of the global
get_session_check(t) ==
    /\ th[t].pc = "gs_check"
    /\ th' = [th EXCEPT ![t].pc = IF NeedsBuild(t) THEN "gs_new" ELSE "gs_ret"]
    /\ UNCHANGED <<session, handles, store, nposts, last, okRuns>>

\* line 37: session = new_session(MODEL_NAME); new_session returns a new
\* handle or raises.  /remove calls get_session inside its try (line 110),
\* /remove/batch outside any (line 178).
get_session_new(t) ==
    /\ th[t].pc = "gs_new"
    /\ \E built \in BOOLEAN :
         IF built
         THEN /\ handles' = handles + 1
              /\ session' = handles + 1
              /\ th' = [th EXCEPT ![t].pc = "gs_ret"]
              /\ UNCHANGED last
         ELSE /\ th' = [th EXCEPT ![t] = Idle]
              /\ last' = IF th[t].kind = "remove"
                         THEN JsonError("remove", 500) @@ [run |-> th[t].run]
                         ELSE Uncaught("batch") @@ [files |-> th[t].files]
              /\ UNCHANGED <<session, handles>>
    /\ UNCHANGED <<store, nposts, okRuns>>

\* line 39: return session
get_session_return(t) ==
    /\ th[t].pc = "gs_ret"
    /\ th' = [th EXCEPT ![t].sess = session,
                        ![t].pc = IF th[t].kind = "remove" THEN "r_process" ELSE "b_loop"]
    /\ UNCHANGED <<session, handles, store, nposts, last, okRuns>>

\* ---------------------------------------------------------------- /remove
\* request.get_json(silent=True, force=True): None when the body does not
\* parse, else the parsed value
GetJson(b) == IF b.json.type = "unparsable"
              THEN [type |-> "null", hasImage |-> FALSE, image |-> "-"]
              ELSE b.json

\* lines 91-101: the image of the request: its bytes, the 400 answer, or
\* the exception raised on the way ("image" in <None, number>; indexing a
\* list or a string with "image"; base64.b64decode of incorrect padding or
\* of a non-string)
ReadImage(b) ==
    IF b.hasFile THEN [r |-> "image", img |-> b.fileImg]
    ELSE IF ~b.isJson THEN [r |-> "bad_request", img |-> "-"]
    ELSE LET j == GetJson(b) IN
         IF j.type \in {"null", "number"} THEN [r |-> "raise", img |-> "-"]
         ELSE IF ~j.hasImage THEN [r |-> "bad_request", img |-> "-"]
         ELSE IF j.type # "object" THEN [r |-> "raise", img |-> "-"]
         ELSE IF j.image = "b64_good" THEN [r |-> "image", img |-> "good"]
         ELSE IF j.image = "b64_bad" THEN [r |-> "image", img |-> "bad"]
         ELSE [r |-> "raise", img |-> "-"]

\* the format parameter compared as sent, not lower-cased
OutputFormatAsSent(a) == ArgsGet(a.format, S_png)

\* line 105: request.args.get("format", "png").lower()
OutputFormat(a) == Lower(ArgsGet(a.format, S_png))

\* line 106: request.args.get("base64", "false").lower() == "true"
ReturnBase64(a) == Lower(ArgsGet(a.base64, S_false)) = S_true

\* line 125: ext = "webp" if output_format == "webp" else "png"
OutputExt(output_format) == IF output_format = S_webp THEN S_webp ELSE S_png

\* lines 129-132: the encoder save() is given
Encoder(ext) == IF ext = S_webp THEN "WEBP" ELSE "PNG"

\* lines 86-106: the request is read
remove_bg_start(t, bodies, args) ==
    /\ th[t] = Idle
    /\ nposts < MaxPosts
    /\ nposts' = nposts + 1
    /\ \E b \in bodies :
         LET in == ReadImage(b) IN
         CASE in.r = "image" ->
                \E a \in args :
                   /\ th' = [th EXCEPT ![t] =
                               [pc |-> "gs_check", kind |-> "remove",
                                run |-> <<nposts + 1, 0>>,
                                args |-> a, image_bytes |-> in.img,
                                output_format |-> OutputFormat(a),
                                return_base64 |-> ReturnBase64(a),
                                sess |-> None, file_id |-> "-", ext |-> <<>>]]
                   /\ last' = NoResponse
           [] in.r = "bad_request" ->
                /\ last' = JsonError("remove", 400) @@ [body |-> b]
                /\ UNCHANGED th
           [] in.r = "raise" ->
                /\ last' = Uncaught("remove") @@ [body |-> b]
                /\ UNCHANGED th
    /\ UNCHANGED <<session, handles, store, okRuns>>

\* the except of lines 162-164
remove_bg_except(t) ==
    /\ th' = [th EXCEPT ![t] = Idle]
    /\ last' = JsonError("remove", 500) @@ [run |-> th[t].run]

\* lines 111-121: rembg.remove with the handle, Image.open, convert
remove_bg_process(t) ==
    /\ th[t].pc = "r_process"
    /\ IF th[t].image_bytes = "good"
       THEN /\ th' = [th EXCEPT ![t].pc = "r_save"]
            /\ UNCHANGED last
       ELSE remove_bg_except(t)
    /\ UNCHANGED <<session, handles, store, nposts, okRuns>>

\* lines 124-132: a new identifier, the extension, the file written.
\* A save that raises leaves no new file: Image.save removes the file it
\* created (damage to a file that was already there is not modelled).
remove_bg_save(t) ==
    /\ th[t].pc = "r_save"
    /\ \E file_id \in FileIds, written \in BOOLEAN :
         LET ext == OutputExt(th[t].output_format) IN
         IF written
         THEN /\ store' = [store EXCEPT ![<<file_id, ext>>] =
                             [run |-> th[t].run, enc |-> Encoder(ext)]]
              /\ th' = [th EXCEPT ![t].pc = "r_respond", ![t].file_id = file_id,
                                  ![t].ext = ext]
              /\ UNCHANGED last
         ELSE /\ remove_bg_except(t)
              /\ UNCHANGED store
    /\ UNCHANGED <<session, handles, nposts, okRuns>>

\* lines 134-160: the result is encoded again, in memory, and handed to
\* jsonify or send_file; these calls are inside the try and can raise
\* (MemoryError in Image.save, TypeError from a send_file that does not
\* know download_name), after the file of lines 129-132 is on disk
remove_bg_respond(t) ==
    /\ th[t].pc = "r_respond"
    /\ \E sent \in BOOLEAN :
         IF sent
         THEN /\ th' = [th EXCEPT ![t] = Idle]
              /\ last' = [kind |-> "remove", status |-> 200,
                          json |-> th[t].return_base64, uncaught |-> FALSE,
                          format |-> th[t].args.format,
                          run |-> th[t].run, sess |-> th[t].sess,
                          id |-> th[t].file_id, ext |-> th[t].ext,
                          enc |-> IF th[t].return_base64 THEN "PNG"
                                  ELSE Encoder(th[t].ext)]
              /\ okRuns' = okRuns \cup
                             {[run |-> th[t].run, id |-> th[t].file_id, ext |-> th[t].ext]}
         ELSE /\ remove_bg_except(t)
              /\ UNCHANGED okRuns
    /\ UNCHANGED <<session, handles, store, nposts>>

\* ---------------------------------------------------------------- /remove/batch
\* lines 170-178: the form is read; the handler's frame is set up.  A form
\* with a 'files' field has at least one file in getlist("files"), so the
\* test of line 174 never succeeds and has no step here.
remove_bg_batch_start(t, batches) ==
    /\ th[t] = Idle
    /\ nposts < MaxPosts
    /\ nposts' = nposts + 1
    /\ \E files \in batches :
         IF Len(files) = 0
         THEN /\ last' = JsonError("batch", 400) @@ [files |-> files]
              /\ UNCHANGED th
         ELSE /\ th' = [th EXCEPT ![t] =
                          [pc |-> "gs_check", kind |-> "batch", run |-> <<nposts + 1, 0>>,
                           files |-> files, sess |-> None, i |-> 1,
                           results |-> <<>>, failed |-> <<>>]]
              /\ last' = NoResponse
    /\ UNCHANGED <<session, handles, store, okRuns>>

\* lines 194-201
OkEntry(file, file_id) ==
    [original |-> file.name, id |-> file_id, filename |-> <<file_id, S_png>>,
     status |-> "ok"]

\* lines 203-207
ErrorEntry(file) ==
    [original |-> file.name, id |-> "-", filename |-> <<"-", <<>>>>,
     status |-> "error"]

\* lines 180-207: one turn of the loop: the file is read, processed and saved
\* as PNG, or the exception of any of that is recorded
remove_bg_batch_item(t) ==
    /\ th[t].pc = "b_loop"
    /\ th[t].i <= Len(th[t].files)
    /\ LET file == th[t].files[th[t].i]
           run == <<th[t].run[1], th[t].i>>
       IN \E file_id \in FileIds, written \in BOOLEAN :
            IF file.img = "good" /\ written
            THEN /\ store' = [store EXCEPT ![<<file_id, S_png>>] =
                                [run |-> run, enc |-> "PNG"]]
                 /\ th' = [th EXCEPT ![t].results = Append(@, OkEntry(file, file_id)),
                                     ![t].failed = Append(@, FALSE),
                                     ![t].i = @ + 1]
            ELSE /\ th' = [th EXCEPT ![t].results = Append(@, ErrorEntry(file)),
                                     ![t].failed = Append(@, TRUE),
                                     ![t].i = @ + 1]
                 /\ UNCHANGED store
    /\ UNCHANGED <<session, handles, nposts, last, okRuns>>

\* line 209
remove_bg_batch_respond(t) ==
    /\ th[t].pc = "b_loop"
    /\ th[t].i > Len(th[t].files)
    /\ th' = [th EXCEPT ![t] = Idle]
    /\ last' = [kind |-> "batch", status |-> 200, json |-> TRUE, uncaught |-> FALSE,
                files |-> th[t].files, sess |-> th[t].sess,
                processed |-> Len(th[t].results), results |-> th[t].results,
                failed |-> th[t].failed]
    /\ UNCHANGED <<session, handles, store, nposts, okRuns>>

\* ---------------------------------------------------------------- /download
\* the extensions probed the other way round
ProbeOrderWebpFirst == <<S_webp, S_png>>

\* line 216: for ext in ["png", "webp"]
ProbeOrder == <<S_png, S_webp>>

\* lines 216-221: the first extension whose file exists, or none
RECURSIVE FirstExisting(_, _, _)
FirstExisting(file_id, exts, k) ==
    IF k > Len(exts) THEN <<>>
    ELSE IF store[<<file_id, exts[k]>>] # NoFile THEN exts[k]
    ELSE FirstExisting(file_id, exts, k + 1)

\* lines 212-221
download(t) ==
    /\ th[t] = Idle
    /\ \E file_id \in FileIds :
         LET ext == FirstExisting(file_id, ProbeOrder, 1) IN
         last' = IF ext = <<>>
                 THEN JsonError("download", 404) @@ [id |-> file_id]
                 ELSE [kind |-> "download", status |-> 200, json |-> FALSE,
                       uncaught |-> FALSE, id |-> file_id, ext |-> ext,
                       sent |-> store[<<file_id, ext>>]]
    /\ UNCHANGED <<session, handles, store, th, nposts, okRuns>>

\* ---------------------------------------------------------------- the server
Step(t, bodies, args, batches) ==
    \/ remove_bg_start(t, bodies, args)
    \/ get_session_check(t)
    \/ get_session_new(t)
    \/ get_session_return(t)
    \/ remove_bg_process(t)
    \/ remove_bg_save(t)
    \/ remove_bg_respond(t)
    \/ remove_bg_batch_start(t, batches)
    \/ remove_bg_batch_item(t)
    \/ remove_bg_batch_respond(t)
    \/ download(t)

\* the requests the interleaved server is given: an upload of either kind
\* or none, the default format or a spelling of webp, one or two files
RaceBodies == { b \in Bodies : ~b.isJson /\ b.json = NoJson }
RaceArgs == { a \in AllArgs : /\ a.format \in {Absent, Arg(<<"W", "e", "b", "P">>)}
                              /\ a.base64 = Absent
                              /\ a.model = "absent" }
RaceBatches == { f \in Batches : \A k \in DOMAIN f : f[k].name = "a.jpg" <=> f[k].img = "good" }

\* app.run: Flask's development server handles each request in a thread of
\* its own, so handlers interleave
Next == \E t \in Threads : Step(t, RaceBodies, RaceArgs, RaceBatches)

Spec == Init /\ [][Next]_vars

\* no other thread has a request in hand
Alone(t) == \A u \in Threads \ {t} : th[u] = Idle

\* one request at a time, of every kind: a request is read only when no
\* other is in hand
NextSeq ==
    \E t \in Threads :
        \/ Alone(t) /\ remove_bg_start(t, Bodies, AllArgs)
        \/ get_session_check(t)
        \/ get_session_new(t)
        \/ get_session_return(t)
        \/ remove_bg_process(t)
        \/ remove_bg_save(t)
        \/ remove_bg_respond(t)
        \/ Alone(t) /\ remove_bg_batch_start(t, Batches)
        \/ remove_bg_batch_item(t)
        \/ remove_bg_batch_respond(t)
        \/ Alone(t) /\ download(t)

SpecSeq == Init /\ [][NextSeq]_vars

\* ---------------------------------------------------------------- properties
Running == {"r_process", "r_save", "r_respond", "b_loop"}

Exists(file_id, ext) == store[<<file_id, ext>>] # NoFile

\* a step that answers a GET /download
DownloadStep == last' # last /\ last'.kind = "download"

\* C1: however the requests interleave, new_session returns at most one
\* handle in the life of the process, and every handler that has its handle
\* has that one.
C1_OneHandleForAll ==
    /\ handles <= 1
    /\ \A t \in Threads : th[t].pc \in Running => th[t].sess = session

\* C2: the answer to a batch of N >= 1 files is the 200 JSON document with
\* processed = N and N entries, entry i naming input i, marked "error"
\* exactly when processing input i raised.
C2_BatchAnswersEveryInput ==
    (last.kind = "batch" /\ Len(last.files) > 0) =>
        /\ last.status = 200
        /\ last.processed = Len(last.files)
        /\ Len(last.results) = Len(last.files)
        /\ \A k \in DOMAIN last.files :
             /\ last.results[k].original = last.files[k].name
             /\ last.results[k].status = "error" <=> last.failed[k]
             /\ last.results[k].status \in {"ok", "error"}

\* C3: a POST /remove with neither a 'file' field nor a JSON 'image' field
\* is answered 400, whatever its body.
C3_NoImageIs400 ==
    (/\ last.kind = "remove"
     /\ "body" \in DOMAIN last
     /\ ~last.body.hasFile
     /\ ~HasImageField(last.body)) => last.status = 400

\* C4: the file {id}.{format} of every /remove answered 200 exists, and a
\* later GET /download/{id} sends the bytes that very run stored.
C4_DownloadReturnsOwnOutput ==
    /\ [](\A r \in okRuns : Exists(r.id, r.ext))
    /\ [][DownloadStep =>
            \A r \in okRuns :
                r.id = last'.id => (last'.status = 200 /\ last'.sent.run = r.run)]_vars

\* C5: the output directory is append-only: a step that changes it adds one
\* file, under an identifier no file there carries, and changes no other.
C5_StoreAppendOnly ==
    [][store' # store =>
         \E f \in FileNames :
            /\ \A g \in FileNames : g[1] = f[1] => store[g] = NoFile
            /\ store'[f] # NoFile
            /\ \A g \in FileNames \ {f} : store'[g] = store[g]]_vars

\* C6: every answer that reports a failure is a JSON document with an
\* 'error' string, produced by the handler, with the status of its kind:
\* 400 or 500 from /remove and /remove/batch, 404 from /download.
C6_FailuresAreJsonErrors ==
    (last.kind # "none" /\ last.status # 200) =>
        /\ last.json
        /\ ~last.uncaught
        /\ last.kind = "download" => last.status = 404
        /\ last.kind \in {"remove", "batch"} => last.status \in {400, 500}

\* the value spells "webp" in some mix of upper and lower case
SpellsWebp(a) ==
    /\ a.present
    /\ Len(a.val) = 4
    /\ a.val[1] \in {"w", "W"}
    /\ a.val[2] \in {"e", "E"}
    /\ a.val[3] \in {"b", "B"}
    /\ a.val[4] \in {"p", "P"}

ExpectedExt(a) == IF SpellsWebp(a) THEN S_webp ELSE S_png

C8_DownloadProbesPngFirst ==
    last.kind = "download" =>
        /\ last.status = 404 <=> (~Exists(last.id, S_png) /\ ~Exists(last.id, S_webp))
        /\ Exists(last.id, S_png) =>
              (last.status = 200 /\ last.sent = store[<<last.id, S_png>>])
        /\ (~Exists(last.id, S_png) /\ Exists(last.id, S_webp)) =>
              (last.status = 200 /\ last.sent = store[<<last.id, S_webp>>])

C8_Witness ==
    /\ last.kind = "download"
    /\ last.status = 200
    /\ Exists(last.id, S_png)
    /\ Exists(last.id, S_webp)
    /\ last.sent = store[<<last.id, S_png>>]

C10_FailureWritesNothing ==
    /\ (last.kind = "remove" /\ last.status # 200 /\ "run" \in DOMAIN last) =>
            \A f \in FileNames : store[f].run # last.run
    /\ \A t \in Threads :
         (th[t].pc = "b_loop") =>
            \A k \in DOMAIN th[t].results :
                th[t].results[k].status = "error" =>
                    \A f \in FileNames : store[f].run # <<th[t].run[1], k>>

====
